---------------------------- MODULE Spec2Model ----------------------------
(***************************************************************************)
(* Verification model of the Qwen2.5-Math-Classifier training pipeline.    *)
(*                                                                         *)
(*   SpecFreeze : the freeze policy of create_llama32_classifier           *)
(*                (src/utils/llama32/create_llama32.py, lines 42-70),      *)
(*                one action per statement group of the function.          *)
(*   SpecMain   : the multi-process run of main() (src/main.py), one       *)
(*                action per statement of main() per worker process, with  *)
(*                the epoch loop of train() between lines 130 and 141.     *)
(***************************************************************************)
EXTENDS Integers, Sequences, FiniteSets, TLC

VARIABLES
    \* ---- create_llama32_classifier ----
    total_layers,                    \* len(model.llama_base.layers)
    freeze_norm_layer,               \* argument
    freeze_embedding,                \* argument
    num_decoder_layers_to_unfreeze,  \* argument
    prior,                           \* requires_grad flags of the model as constructed (line 39)
    requires_grad,                   \* set of parameters whose requires_grad is True
    fpc,                             \* position inside create_llama32_classifier
    pending,                         \* indices the loop of line 63 has still to visit
    \* ---- main ----
    num_processes,                   \* accelerator.num_processes
    mpc,                             \* per process: index of the statement of main() to run next
    tpc,                             \* per process: position inside train()
    epoch,                           \* per process: current epoch of train()
    batch,                           \* per process: batches of the epoch already processed
    shard,                           \* per process: samples received per step (-1 before prepare)
    steps,                           \* per process: training steps executed
    optimizerBuilt,                  \* per process: torch.optim.AdamW constructed
    modelBuilt,                      \* per process: model factory returned
    trackerCalls,                    \* set of <<process, call>> made on wandb
    checkpoints                      \* epochs after which a checkpoint was requested

freezeVars == <<total_layers, freeze_norm_layer, freeze_embedding,
                num_decoder_layers_to_unfreeze, prior, requires_grad, fpc, pending>>

mainVars == <<num_processes, mpc, tpc, epoch, batch, shard, steps,
              optimizerBuilt, modelBuilt, trackerCalls, checkpoints>>

vars == <<total_layers, freeze_norm_layer, freeze_embedding,
          num_decoder_layers_to_unfreeze, prior, requires_grad, fpc, pending,
          num_processes, mpc, tpc, epoch, batch, shard, steps,
          optimizerBuilt, modelBuilt, trackerCalls, checkpoints>>

-----------------------------------------------------------------------------
(* Bounds *)

MaxLayers == 2      \* largest number of trunk decoder blocks explored
MaxProcs == 2       \* largest number of worker processes explored
NumBatches == 1     \* batches per epoch in the train and in the validation split

-----------------------------------------------------------------------------
(* Parameters of the composed model *)

\* A parameter is <<submodule, index>>; index is the decoder block position
\* (0-based, as in model.llama_base.layers) and -1 outside the blocks.
\* Every decoder block owns projection weights and its own normalization
\* weights (input / post-attention layer norms).
ClassifierParams == {<<"classifier", -1>>}

EmbedParams == {<<"embed_tokens", -1>>}

NormParams == {<<"norm", -1>>}

LayerParams(i) == {<<"layer_proj", i>>, <<"layer_norm", i>>}

AllLayerParams(L) == UNION {LayerParams(i) : i \in 0..(L - 1)}

Params(L) == ClassifierParams \cup EmbedParams \cup NormParams \cup AllLayerParams(L)

\* Every normalization parameter of the trunk: the final norm and the norms
\* inside the decoder blocks.
AllNormalizationParams(L) == NormParams \cup {<<"layer_norm", i>> : i \in 0..(L - 1)}

-----------------------------------------------------------------------------
(* Statements of the freeze policy *)

\* Python range(a, b) as a sequence.
Range(a, b) == [k \in 1..(IF b > a THEN b - a ELSE 0) |-> a + k - 1]

FreezeAllSkipped(f) == f

\* lines 43-44
FreezeAll(f) == {}

UnfreezeClassifierSkipped(f) == f

\* lines 47-48
UnfreezeClassifier(f) == f \cup ClassifierParams

\* lines 51-53
UnfreezeEmbedding(f, fe) == IF ~fe THEN f \cup EmbedParams ELSE f

UnfreezeNormInverted(f, fn) == IF fn THEN f \cup NormParams ELSE f

\* lines 56-58
UnfreezeNorm(f, fn) == IF ~fn THEN f \cup NormParams ELSE f

LayerIndicesOffByOne(L, n) == IF n > 0 THEN Range(L - n + 1, L) ELSE <<>>

LayerIndicesAbs(L, n) == Range(L - (IF n < 0 THEN -n ELSE n), L)

\* lines 61-63: the indices visited by the loop, in order
LayerIndices(L, n) == IF n > 0 THEN Range(L - n, L) ELSE <<>>

\* nn.ModuleList.__getitem__: an index in -L..L-1 is accepted, a negative one
\* counts from the end; anything else raises IndexError.
IndexInRange(L, i) == -L <= i /\ i < L

AbsIndex(L, i) == IF i < 0 THEN i + L ELSE i

\* lines 64-65
UnfreezeLayer(f, L, i) == f \cup LayerParams(AbsIndex(L, i))

RECURSIVE UnfreezeLayers(_, _, _)
UnfreezeLayers(f, L, idx) ==
    IF idx = <<>> THEN f
    ELSE UnfreezeLayers(UnfreezeLayer(f, L, Head(idx)), L, Tail(idx))

\* lines 42-65 run to completion from flags f0 (defined when no index is rejected)
PolicyResult(f0, L, fn, fe, n) ==
    UnfreezeLayers(
        UnfreezeNorm(UnfreezeEmbedding(UnfreezeClassifier(FreezeAll(f0)), fe), fn),
        L, LayerIndices(L, n))

-----------------------------------------------------------------------------
(* create_llama32_classifier as a state machine *)

MainIdle ==
    /\ num_processes = 1
    /\ mpc = [p \in 0..0 |-> 1]
    /\ tpc = [p \in 0..0 |-> "idle"]
    /\ epoch = [p \in 0..0 |-> 0]
    /\ batch = [p \in 0..0 |-> 0]
    /\ shard = [p \in 0..0 |-> -1]
    /\ steps = [p \in 0..0 |-> 0]
    /\ optimizerBuilt = [p \in 0..0 |-> FALSE]
    /\ modelBuilt = [p \in 0..0 |-> FALSE]
    /\ trackerCalls = {}
    /\ checkpoints = {}

InitFreeze ==
    /\ total_layers \in 1..MaxLayers
    /\ freeze_norm_layer \in BOOLEAN
    /\ freeze_embedding \in BOOLEAN
    /\ num_decoder_layers_to_unfreeze \in -2..(2 * total_layers + 1)
    /\ prior \in SUBSET Params(total_layers)
    /\ requires_grad = prior
    /\ fpc = "freeze_all"
    /\ pending = <<>>
    /\ MainIdle

cfgVars == <<total_layers, freeze_norm_layer, freeze_embedding,
             num_decoder_layers_to_unfreeze, prior>>

DoFreezeAll ==
    /\ fpc = "freeze_all"
    /\ requires_grad' = FreezeAll(requires_grad)
    /\ fpc' = "unfreeze_classifier"
    /\ UNCHANGED <<cfgVars, pending, mainVars>>

DoUnfreezeClassifier ==
    /\ fpc = "unfreeze_classifier"
    /\ requires_grad' = UnfreezeClassifier(requires_grad)
    /\ fpc' = "embedding"
    /\ UNCHANGED <<cfgVars, pending, mainVars>>

DoUnfreezeEmbedding ==
    /\ fpc = "embedding"
    /\ requires_grad' = UnfreezeEmbedding(requires_grad, freeze_embedding)
    /\ fpc' = "norm"
    /\ UNCHANGED <<cfgVars, pending, mainVars>>

DoUnfreezeNorm ==
    /\ fpc = "norm"
    /\ requires_grad' = UnfreezeNorm(requires_grad, freeze_norm_layer)
    /\ fpc' = "layers"
    /\ UNCHANGED <<cfgVars, pending, mainVars>>

\* lines 61-63: evaluate the guard and the range
EnterLayerLoop ==
    /\ fpc = "layers"
    /\ pending' = LayerIndices(total_layers, num_decoder_layers_to_unfreeze)
    /\ fpc' = "layer_loop"
    /\ UNCHANGED <<cfgVars, requires_grad, mainVars>>

\* lines 63-65: one iteration
LayerLoopStep ==
    /\ fpc = "layer_loop"
    /\ pending # <<>>
    /\ IndexInRange(total_layers, Head(pending))
    /\ requires_grad' = UnfreezeLayer(requires_grad, total_layers, Head(pending))
    /\ pending' = Tail(pending)
    /\ UNCHANGED <<cfgVars, fpc, mainVars>>

\* line 64: model.llama_base.layers[i] rejects the index
LayerLoopIndexError ==
    /\ fpc = "layer_loop"
    /\ pending # <<>>
    /\ ~IndexInRange(total_layers, Head(pending))
    /\ fpc' = "index_error"
    /\ UNCHANGED <<cfgVars, requires_grad, pending, mainVars>>

\* lines 67-70: the loop is exhausted, the model is returned
ReturnModel ==
    /\ fpc = "layer_loop"
    /\ pending = <<>>
    /\ fpc' = "done"
    /\ UNCHANGED <<cfgVars, requires_grad, pending, mainVars>>

NextFreeze ==
    \/ DoFreezeAll
    \/ DoUnfreezeClassifier
    \/ DoUnfreezeEmbedding
    \/ DoUnfreezeNorm
    \/ EnterLayerLoop
    \/ LayerLoopStep
    \/ LayerLoopIndexError
    \/ ReturnModel

SpecFreeze == InitFreeze /\ [][NextFreeze]_vars

-----------------------------------------------------------------------------
(* main(): run configuration *)

\* main.py line 64
BATCH_SIZE == 1

\* main.py line 81
EPOCHS == 5

CheckpointEveryThree == 2 + 1

\* main.py line 139
checkpoint_every_n_epochs == 2

\* accelerator.is_main_process (line 121): the process of index 0
Coordinator == 0

IsMainProcess(p) == p = Coordinator

Procs == 0..(num_processes - 1)

MainProgramTrainFirst ==
    <<"summarize_model", "create_dataloaders", "accelerator", "optimizer",
      "wandb_init", "train", "create_model", "wandb_finish">>

\* The statements of main() that the model follows, in source order.
MainProgram ==
    <<"create_model", "summarize_model", "create_dataloaders", "accelerator",
      "optimizer", "wandb_init", "train", "wandb_finish">>

\* Positions past the last statement: normal return, and the exits by exception.
Returned == Len(MainProgram) + 1

ConfigError == Len(MainProgram) + 2

PrepareError == Len(MainProgram) + 3

At(p, stmt) == mpc[p] \in 1..Len(MainProgram) /\ MainProgram[mpc[p]] = stmt

Advance(p) == mpc' = [mpc EXCEPT ![p] = @ + 1]

\* split_batches=True (line 89): the length of the slice of each batch that one
\* process receives, batch_size // num_processes.
BatchLength(b, w) == b \div w

\* A batch size that is no multiple of the process count cannot be split evenly.
Splittable(b, w) == b % w = 0

\* train(): the checkpoint decision at the end of epoch e.
CheckpointDue(e) == e % checkpoint_every_n_epochs = 0 \/ e = EPOCHS

-----------------------------------------------------------------------------
(* main() as a state machine, one instance per worker process *)

FreezeIdle ==
    /\ total_layers = 1
    /\ freeze_norm_layer = FALSE
    /\ freeze_embedding = TRUE
    /\ num_decoder_layers_to_unfreeze = 0
    /\ prior = {}
    /\ requires_grad = {}
    /\ fpc = "idle"
    /\ pending = <<>>

InitMain ==
    /\ num_processes \in 1..MaxProcs
    /\ mpc = [p \in Procs |-> 1]
    /\ tpc = [p \in Procs |-> "idle"]
    /\ epoch = [p \in Procs |-> 0]
    /\ batch = [p \in Procs |-> 0]
    /\ shard = [p \in Procs |-> -1]
    /\ steps = [p \in Procs |-> 0]
    /\ optimizerBuilt = [p \in Procs |-> FALSE]
    /\ modelBuilt = [p \in Procs |-> FALSE]
    /\ trackerCalls = {}
    /\ checkpoints = {}
    /\ FreezeIdle

\* lines 49-56: the model factory returns the model
CreateModel(p) ==
    /\ At(p, "create_model")
    /\ modelBuilt' = [modelBuilt EXCEPT ![p] = TRUE]
    /\ Advance(p)
    /\ UNCHANGED <<num_processes, tpc, epoch, batch, shard, steps, optimizerBuilt,
                   trackerCalls, checkpoints, freezeVars>>

\* lines 49-56: the model factory rejects the freeze / adapter configuration
CreateModelFails(p) ==
    /\ At(p, "create_model")
    /\ mpc' = [mpc EXCEPT ![p] = ConfigError]
    /\ UNCHANGED <<num_processes, tpc, epoch, batch, shard, steps, optimizerBuilt,
                   modelBuilt, trackerCalls, checkpoints, freezeVars>>

\* line 59
SummarizeModel(p) ==
    /\ At(p, "summarize_model")
    /\ Advance(p)
    /\ UNCHANGED <<num_processes, tpc, epoch, batch, shard, steps, optimizerBuilt,
                   modelBuilt, trackerCalls, checkpoints, freezeVars>>

\* lines 62-74
CreateDataloaders(p) ==
    /\ At(p, "create_dataloaders")
    /\ Advance(p)
    /\ UNCHANGED <<num_processes, tpc, epoch, batch, shard, steps, optimizerBuilt,
                   modelBuilt, trackerCalls, checkpoints, freezeVars>>

\* lines 87-94
CreateAccelerator(p) ==
    /\ At(p, "accelerator")
    /\ Advance(p)
    /\ UNCHANGED <<num_processes, tpc, epoch, batch, shard, steps, optimizerBuilt,
                   modelBuilt, trackerCalls, checkpoints, freezeVars>>

\* lines 97-106
BuildOptimizer(p) ==
    /\ At(p, "optimizer")
    /\ optimizerBuilt' = [optimizerBuilt EXCEPT ![p] = TRUE]
    /\ Advance(p)
    /\ UNCHANGED <<num_processes, tpc, epoch, batch, shard, steps, modelBuilt,
                   trackerCalls, checkpoints, freezeVars>>

\* lines 121-127
WandbInit(p) ==
    /\ At(p, "wandb_init")
    /\ trackerCalls' = IF IsMainProcess(p)
                       THEN trackerCalls \cup {<<p, "init">>}
                       ELSE trackerCalls
    /\ Advance(p)
    /\ UNCHANGED <<num_processes, tpc, epoch, batch, shard, steps, optimizerBuilt,
                   modelBuilt, checkpoints, freezeVars>>

\* line 130, entry of train(): the dataloaders are sharded for this process
TrainPrepare(p) ==
    /\ At(p, "train")
    /\ tpc[p] = "idle"
    /\ shard' = [shard EXCEPT ![p] = BatchLength(BATCH_SIZE, num_processes)]
    /\ tpc' = [tpc EXCEPT ![p] = "train_step"]
    /\ epoch' = [epoch EXCEPT ![p] = 1]
    /\ UNCHANGED <<num_processes, mpc, batch, steps, optimizerBuilt, modelBuilt,
                   trackerCalls, checkpoints, freezeVars>>

\* line 130, entry of train(): the batch size is rejected as not splittable
TrainPrepareFails(p) ==
    /\ At(p, "train")
    /\ tpc[p] = "idle"
    /\ ~Splittable(BATCH_SIZE, num_processes)
    /\ mpc' = [mpc EXCEPT ![p] = PrepareError]
    /\ UNCHANGED <<num_processes, tpc, epoch, batch, shard, steps, optimizerBuilt,
                   modelBuilt, trackerCalls, checkpoints, freezeVars>>

\* train(): forward, loss, backward, optimizer step on one batch
TrainStep(p) ==
    /\ At(p, "train")
    /\ tpc[p] = "train_step"
    /\ steps' = [steps EXCEPT ![p] = @ + 1]
    /\ IF batch[p] + 1 = NumBatches
       THEN /\ batch' = [batch EXCEPT ![p] = 0]
            /\ tpc' = [tpc EXCEPT ![p] = "validate_step"]
       ELSE /\ batch' = [batch EXCEPT ![p] = @ + 1]
            /\ tpc' = tpc
    /\ UNCHANGED <<num_processes, mpc, epoch, shard, optimizerBuilt, modelBuilt,
                   trackerCalls, checkpoints, freezeVars>>

\* train(): forward pass only on one validation batch
ValidateStep(p) ==
    /\ At(p, "train")
    /\ tpc[p] = "validate_step"
    /\ IF batch[p] + 1 = NumBatches
       THEN /\ batch' = [batch EXCEPT ![p] = 0]
            /\ tpc' = [tpc EXCEPT ![p] = "checkpoint_decision"]
       ELSE /\ batch' = [batch EXCEPT ![p] = @ + 1]
            /\ tpc' = tpc
    /\ UNCHANGED <<num_processes, mpc, epoch, shard, steps, optimizerBuilt,
                   modelBuilt, trackerCalls, checkpoints, freezeVars>>

\* train(): end of an epoch; the coordinator logs the epoch summary and
\* requests a checkpoint when one is due
CheckpointDecision(p) ==
    /\ At(p, "train")
    /\ tpc[p] = "checkpoint_decision"
    /\ trackerCalls' = IF IsMainProcess(p)
                       THEN trackerCalls \cup {<<p, "log">>}
                       ELSE trackerCalls
    /\ checkpoints' = IF IsMainProcess(p) /\ CheckpointDue(epoch[p])
                      THEN checkpoints \cup {epoch[p]}
                      ELSE checkpoints
    /\ IF epoch[p] = EPOCHS
       THEN /\ tpc' = [tpc EXCEPT ![p] = "returned"]
            /\ epoch' = epoch
       ELSE /\ tpc' = [tpc EXCEPT ![p] = "train_step"]
            /\ epoch' = [epoch EXCEPT ![p] = @ + 1]
    /\ UNCHANGED <<num_processes, mpc, batch, shard, steps, optimizerBuilt,
                   modelBuilt, freezeVars>>

\* line 141: train() returns its results
TrainReturn(p) ==
    /\ At(p, "train")
    /\ tpc[p] = "returned"
    /\ Advance(p)
    /\ UNCHANGED <<num_processes, tpc, epoch, batch, shard, steps, optimizerBuilt,
                   modelBuilt, trackerCalls, checkpoints, freezeVars>>

\* line 144: not guarded by is_main_process
WandbFinish(p) ==
    /\ At(p, "wandb_finish")
    /\ trackerCalls' = trackerCalls \cup {<<p, "finish">>}
    /\ Advance(p)
    /\ UNCHANGED <<num_processes, tpc, epoch, batch, shard, steps, optimizerBuilt,
                   modelBuilt, checkpoints, freezeVars>>

NextMain ==
    \/ \E p \in Procs : CreateModel(p)
    \/ \E p \in Procs : CreateModelFails(p)
    \/ \E p \in Procs : SummarizeModel(p)
    \/ \E p \in Procs : CreateDataloaders(p)
    \/ \E p \in Procs : CreateAccelerator(p)
    \/ \E p \in Procs : BuildOptimizer(p)
    \/ \E p \in Procs : WandbInit(p)
    \/ \E p \in Procs : TrainPrepare(p)
    \/ \E p \in Procs : TrainPrepareFails(p)
    \/ \E p \in Procs : TrainStep(p)
    \/ \E p \in Procs : ValidateStep(p)
    \/ \E p \in Procs : CheckpointDecision(p)
    \/ \E p \in Procs : TrainReturn(p)
    \/ \E p \in Procs : WandbFinish(p)

SpecMain == InitMain /\ [][NextMain]_vars

-----------------------------------------------------------------------------
(* Properties of the freeze policy (checked under SpecFreeze) *)

Returned_Model == fpc = "done"

\* The trainable set the contract describes, by position counted from the end.
ExpectedTrainable ==
    ClassifierParams
    \cup (IF ~freeze_embedding THEN EmbedParams ELSE {})
    \cup (IF ~freeze_norm_layer THEN NormParams ELSE {})
    \cup {q \in AllLayerParams(total_layers) :
            q[2] >= total_layers - num_decoder_layers_to_unfreeze}

\* C1: for 0 <= N <= number of decoder blocks, the parameters trainable when the
\* model is returned are exactly the classifier, the embedding iff
\* freeze_embedding is false, the trunk's norm layer iff freeze_norm_layer is
\* false, and every parameter of the last N decoder blocks.
C1_TrainableSetExact ==
    (Returned_Model /\ num_decoder_layers_to_unfreeze >= 0
                    /\ num_decoder_layers_to_unfreeze <= total_layers)
        => requires_grad = ExpectedTrainable

C1_Witness ==
    /\ Returned_Model
    /\ total_layers = 2
    /\ num_decoder_layers_to_unfreeze = 1
    /\ ~freeze_embedding
    /\ freeze_norm_layer
    /\ requires_grad = {<<"classifier", -1>>, <<"embed_tokens", -1>>,
                        <<"layer_proj", 1>>, <<"layer_norm", 1>>}

\* C2: a count larger than the number of decoder blocks never yields a returned
\* model.
C2_TooManyLayersRejected ==
    num_decoder_layers_to_unfreeze > total_layers => ~Returned_Model

\* C3: from the statement after lines 47-48 on, and in particular when the
\* model is returned, the classifier parameters are trainable in every
\* configuration.
C3_HeadAlwaysTrainable ==
    fpc \in {"embedding", "norm", "layers", "layer_loop", "done", "index_error"}
        => ClassifierParams \subseteq requires_grad

C3_Witness ==
    /\ Returned_Model
    /\ freeze_norm_layer
    /\ freeze_embedding
    /\ num_decoder_layers_to_unfreeze = 0
    /\ ClassifierParams \cap prior = {}
    /\ requires_grad = ClassifierParams

\* C7: the flags of a returned model are those the policy produces from any
\* prior flags whatsoever under the same configuration; the prior "flags of
\* the returned model" is one of them, so a second application changes nothing.
C7_IndependentOfPrior ==
    Returned_Model =>
        \A f0 \in SUBSET Params(total_layers) :
            PolicyResult(f0, total_layers, freeze_norm_layer, freeze_embedding,
                         num_decoder_layers_to_unfreeze) = requires_grad

C7_Witness ==
    /\ Returned_Model
    /\ prior = Params(total_layers)
    /\ requires_grad # prior
    /\ PolicyResult(requires_grad, total_layers, freeze_norm_layer, freeze_embedding,
                    num_decoder_layers_to_unfreeze) = requires_grad

\* C8 as stated: with freeze_norm_layer false every normalization parameter of
\* the trunk, those inside the decoder blocks included, is trainable.
C8_AllNormalizationTrainable ==
    (Returned_Model /\ ~freeze_norm_layer)
        => AllNormalizationParams(total_layers) \subseteq requires_grad

\* C8 amended: with freeze_norm_layer false the trunk's final norm layer is
\* trainable in every configuration, and a normalization parameter inside a
\* decoder block is trainable exactly when its block is among those the layer
\* loop unfreezes.
C8_FinalNormTrainable ==
    (Returned_Model /\ ~freeze_norm_layer)
        => /\ NormParams \subseteq requires_grad
           /\ \A i \in 0..(total_layers - 1) :
                <<"layer_norm", i>> \in requires_grad
                    <=> (/\ num_decoder_layers_to_unfreeze > 0
                         /\ i >= total_layers - num_decoder_layers_to_unfreeze)

C8_Witness ==
    /\ Returned_Model
    /\ ~freeze_norm_layer
    /\ total_layers = 2
    /\ num_decoder_layers_to_unfreeze = 1
    /\ <<"norm", -1>> \in requires_grad
    /\ <<"layer_norm", 0>> \notin requires_grad
    /\ <<"layer_norm", 1>> \in requires_grad

\* C10: a negative count raises no error, and the returned model has exactly
\* the classifier, the embedding if unfrozen and the final norm if unfrozen
\* trainable: no decoder block parameter.
C10_NegativeLikeZero ==
    num_decoder_layers_to_unfreeze < 0
        => /\ fpc # "index_error"
           /\ Returned_Model =>
                /\ requires_grad \cap AllLayerParams(total_layers) = {}
                /\ requires_grad =
                     ClassifierParams
                     \cup (IF ~freeze_embedding THEN EmbedParams ELSE {})
                     \cup (IF ~freeze_norm_layer THEN NormParams ELSE {})

C10_Witness ==
    /\ Returned_Model
    /\ num_decoder_layers_to_unfreeze = -2
    /\ AllLayerParams(total_layers) \subseteq prior
    /\ ~freeze_embedding
    /\ requires_grad = {<<"classifier", -1>>, <<"embed_tokens", -1>>, <<"norm", -1>>}

-----------------------------------------------------------------------------
(* Properties of main() (checked under SpecMain) *)

\* C4: every call on the experiment tracker is made by the coordinator.
C4_TrackerCoordinatorOnly ==
    \A c \in trackerCalls : c[1] = Coordinator

\* The coordinator has completed epoch e of train().
EpochCompleted(e) ==
    \/ epoch[Coordinator] > e
    \/ tpc[Coordinator] = "returned"

C6_GlobalBatchPreserved ==
    \A p \in Procs :
        shard[p] # -1 => shard[p] * num_processes = BATCH_SIZE

\* C9: a process that leaves main() with a configuration error has built no
\* optimizer, has not initialised the tracker and has run no training step;
\* and each of these happens only after the model factory has returned.
C9_ConfigErrorBeforeTraining ==
    \A p \in Procs :
        /\ mpc[p] = ConfigError
             => /\ steps[p] = 0
                /\ tpc[p] = "idle"
                /\ ~optimizerBuilt[p]
                /\ <<p, "init">> \notin trackerCalls
        /\ (optimizerBuilt[p] \/ steps[p] > 0 \/ tpc[p] # "idle"
              \/ <<p, "init">> \in trackerCalls) => modelBuilt[p]

C9_Witness ==
    /\ num_processes = 2
    /\ mpc[Coordinator] = ConfigError
    /\ steps[1] > 0
    /\ steps[Coordinator] = 0

=============================================================================
